---- MODULE Spec2Model ----
(***************************************************************************)
(* State-machine model of static/js/app.js, the client runtime of the      *)
(* double-pendulum page: the observable store (StateManager), the polling  *)
(* loop (pollState / handleConnectionError), the display binder            *)
(* (updateAllDisplays / updateEnergyDisplay), the debounced command        *)
(* dispatcher (updateParameter / updateInitialCondition), the immediate    *)
(* commands (setPreset / resetToDefaults), and the animation loop with its *)
(* trail buffers (animate / togglePause / toggleTrails).                   *)
(*                                                                         *)
(* Numbers with decimals are kept as integers in hundredths (9.81 is 981). *)
(* A JavaScript value that may be null is a sequence of length 0 or 1.     *)
(* Every handler of the single event loop is one atomic action; what is    *)
(* asynchronous (a fetch, a setTimeout) is a message in flight or a        *)
(* pending timer between two actions.                                      *)
(***************************************************************************)
EXTENDS Integers, Sequences, FiniteSets, TLC

----------------------------------------------------------------------------
(* Bounds of the model, and the inputs drawn from small sets.              *)

\* Timer handles returned by setTimeout are 1..MaxTimers (0 is "no handle").
MaxTimers == 3
\* Preset / reset requests issued over a run (hist.commands counts them).
MaxCommands == 1
\* The failure counter is followed up to this value.
MaxFailures == 7
\* Where the trails are followed to their capacity, the polls complete and
\* the user acts while the first trail holds fewer samples than this.
EarlySamples == 3

\* Frames counted within one second before the fps update is due.
MaxFrameCount == 1

maxRetries == 5
MAX_TRAIL == 300

\* performance.now() at an animation frame, in ms since the last fps update.
FrameTimes == {16, 1000}

None == << >>
Some(x) == << x >>

ParamNames == {"length_rod_1", "length_rod_2", "mass_bob_1", "mass_bob_2", "g"}
CondNames == {"theta_1", "theta_2", "omega_1", "omega_2"}

\* The fields the user edits in the model: one parameter and one condition.
EditParams == {"g"}
EditConds == {"theta_1"}
EditFields == EditParams \cup EditConds

\* Slider strings handed to updateParameter / updateInitialCondition, and
\* parseFloat of each, in hundredths.
InputStrings == {"3.71", "1.5"}
parseFloat(s) == CASE s = "3.71" -> 371
                   [] s = "1.5" -> 150
                   [] s = "9.81" -> 981
                   [] OTHER -> 0

DefaultParameters ==
  [length_rod_1 |-> 12000, length_rod_2 |-> 12000,
   mass_bob_1 |-> 1000, mass_bob_2 |-> 1000, g |-> 981]
DefaultConditions ==
  [theta_1 |-> 157, theta_2 |-> 157, omega_1 |-> 0, omega_2 |-> 0]

\* Bodies the /state endpoint returns on a successful poll: a flat object.
ServerState(coords, energy, parameters, conditions) ==
  [coords |-> coords, energy |-> energy,
   theta_1 |-> conditions.theta_1, theta_2 |-> conditions.theta_2,
   omega_1 |-> conditions.omega_1, omega_2 |-> conditions.omega_2,
   length_rod_1 |-> parameters.length_rod_1,
   length_rod_2 |-> parameters.length_rod_2,
   mass_bob_1 |-> parameters.mass_bob_1,
   mass_bob_2 |-> parameters.mass_bob_2,
   g |-> parameters.g]
ResponseA ==
  ServerState(<< [x |-> 300, y |-> 220], [x |-> 300, y |-> 340] >>,
              [kinetic |-> 40, potential |-> 60, total |-> 100],
              DefaultParameters, DefaultConditions)
ResponseB ==
  ServerState(<< [x |-> 310, y |-> 215], [x |-> 330, y |-> 330] >>,
              [kinetic |-> 50, potential |-> 60, total |-> 110],
              [DefaultParameters EXCEPT !.g = 162],
              [DefaultConditions EXCEPT !.theta_1 = 100, !.omega_1 = 25])
Responses == {ResponseA, ResponseB}

----------------------------------------------------------------------------
VARIABLES
  state,      \* stateManager.state, the snapshot
  heap,       \* the objects that have been state.updateTimeouts, by reference
  timers,     \* the pending setTimeout callbacks, in the order they are due
  nextTimer,  \* the next handle setTimeout returns
  sent,       \* the outbound write requests the handler that ran last issued
  inflight,   \* preset / reset requests whose response has not arrived
  dom,        \* the DOM targets the model follows
  listeners,  \* stateManager.listeners, in the order they were subscribed
  trail1,     \* the trail of the first body, oldest sample first
  trail2,     \* the trail of the second body
  frameRequested, \* an animation frame is requested and has not run yet
  lastOp,     \* history: the handler that ran last
  trace,      \* history: what the handler that ran last did
  hist        \* history, read by no handler: failRun, the failed polls since
              \* the last successful one; response, the body of the last
              \* successful poll; epoch, "reset" from a successful reset to
              \* the next successful poll, then "polled" (baseline is that
              \* poll's energy total); preset, the last preset applied;
              \* commands, the preset / reset requests issued; lastEdit and
              \* burst, per field, the last edit and the values requested
              \* since the field's burst of edits began; writes and calls,
              \* the log of the last direct call of the store; overflow,
              \* the last animation frame found the first trail full

vars ==
  << state, heap, timers, nextTimer, sent, inflight, dom, listeners, trail1,
     trail2, frameRequested, lastOp, trace, hist >>

----------------------------------------------------------------------------
(* StateManager                                                            *)

\* Mutant: a merge in which the fields the state already has win.
Merge_KeepsOld(old, newState) ==
  [k \in (DOMAIN old) \cup (DOMAIN newState) |->
     IF k \in DOMAIN old THEN old[k] ELSE newState[k]]

\* { ...this.state, ...newState }: top-level fields of newState replace.
Merge(old, newState) ==
  [k \in (DOMAIN old) \cup (DOMAIN newState) |->
     IF k \in DOMAIN newState THEN newState[k] ELSE old[k]]

InitialState ==
  [isPaused |-> FALSE,
   showTrails |-> TRUE,
   initialEnergy |-> None,
   fps |-> 0,
   frameCount |-> 0,
   isConnected |-> FALSE,
   connectionRetries |-> 0,
   updateTimeouts |-> 1,
   latestCoords |-> None,
   latestEnergy |-> None,
   simulationState |-> None,
   parameters |-> DefaultParameters,
   conditions |-> DefaultConditions]

\* The DOM targets followed are #energy-error and #status-text. The text of
\* #energy-error is <<"markup", 0>> until the script writes it (the page's
\* markup is not part of the script), <<"num", n>> for n / 100 as written by
\* toFixed(2) + "%", <<"Infinity", 0>> and <<"NaN", 0>> for those two numbers.
Markup == << "markup", 0 >>
Num(n) == << "num", n >>
Abs(n) == IF n < 0 THEN -n ELSE n

\* The world a handler runs in: the store and the DOM it writes, with a log of
\* the notifications delivered while it runs.
\* It also holds the trails and the animation-frame request, and a log of the
\* store's calls: mutations counts the setState calls, writes lists what each
\* call applied, calls lists the listeners invoked, each with the number of
\* the mutation it was notified of and the two snapshots it was handed.
\* The one value of an expression evaluated a single time, however often the
\* operator it is handed to uses it.
Once(S) == CHOOSE x \in S : TRUE

World ==
  [state |-> state, dom |-> dom, trail1 |-> trail1, trail2 |-> trail2,
   frameRequested |-> frameRequested,
   sources |-> {}, projections |-> 0, captured |-> FALSE,
   mutations |-> 0, writes |-> << >>, calls |-> << >>]

RECURSIVE setState(_, _, _)
RECURSIVE notifyListeners(_, _, _, _)
RECURSIVE forEach(_, _, _, _, _, _)
RECURSIVE invoke(_, _, _, _, _)
RECURSIVE DisplayBinder(_, _, _, _)
RECURSIVE updateAllDisplays(_)
RECURSIVE updateEnergyDisplay(_)

setState(w, newState, source) ==
  LET merged(w0) ==
        LET prevState == w0.state
            w1 == [w0 EXCEPT !.state = Merge(w0.state, newState),
                             !.mutations = @ + 1,
                             !.writes = Append(@, [kind |-> "merge",
                                                   partial |-> newState,
                                                   keys |-> << >>,
                                                   value |-> 0])]
        IN  notifyListeners(w1, prevState, w1.state, source)
  IN  Once({ merged(w0) : w0 \in {w} })

\* The listeners the model knows: "binder" is the page's display binder (the
\* one listener the page subscribes), "thrower" throws whenever it is
\* invoked, every other listener only observes.
Listeners == {"binder", "observer", "thrower"}

\* listener(prevState, newState, source) inside try / catch: what a listener
\* throws is caught and logged.
invoke(w, listener, prevState, newState, source) ==
  CASE listener = "binder" -> DisplayBinder(w, prevState, newState, source)
    [] listener = "thrower" -> w
    [] OTHER -> w

\* Mutant: what a listener throws is not caught and ends the iteration.
forEach_StopsAtThrow(w, ls, mutation, prevState, newState, source) ==
  IF ls = << >>
    THEN w
    ELSE LET called == [w EXCEPT !.calls =
                          Append(@, [mutation |-> mutation,
                                     listener |-> Head(ls),
                                     prevState |-> prevState,
                                     newState |-> newState])]
         IN  IF Head(ls) = "thrower"
               THEN called
               ELSE forEach(invoke(called, Head(ls), prevState, newState,
                                   source),
                            Tail(ls), mutation, prevState, newState, source)

\* this.listeners.forEach: a Set is iterated in insertion order.
forEach(w, ls, mutation, prevState, newState, source) ==
  IF ls = << >>
    THEN w
    ELSE LET called == [w EXCEPT !.calls =
                          Append(@, [mutation |-> mutation,
                                     listener |-> Head(ls),
                                     prevState |-> prevState,
                                     newState |-> newState])]
         IN  forEach(invoke(called, Head(ls), prevState, newState, source),
                     Tail(ls), mutation, prevState, newState, source)

notifyListeners(w, prevState, newState, source) ==
  Once({ forEach([w0 EXCEPT !.sources = @ \cup {source}], listeners,
                 w0.mutations, prevState, newState, source)
         : w0 \in {w} })

DisplayBinder(w, prevState, newState, source) ==
  IF source # "local_update" THEN updateAllDisplays(w) ELSE w

\* Math.abs(((total - initialEnergy) / initialEnergy) * 100).toFixed(2), with
\* null read as the number 0.
conservationError(total, initialEnergy) ==
  LET init == IF initialEnergy = None THEN 0 ELSE initialEnergy[1]
      diff == Abs(total - init)
      den == Abs(init)
  IN  IF init = 0
        THEN (IF diff = 0 THEN << "NaN", 0 >> ELSE << "Infinity", 0 >>)
        ELSE Num((2 * diff * 10000 + den) \div (2 * den))

\* Mutant: the baseline is captured again at every energy display update.
updateEnergyDisplay_Recaptures(w) ==
  LET s == w.state
      total == s.latestEnergy[1].total
      w1 == IF s.initialEnergy = None \/ s.initialEnergy # Some(total)
              THEN setState([w EXCEPT !.captured = TRUE],
                            [initialEnergy |-> Some(total)], "energy_init")
              ELSE w
  IN  IF s.latestEnergy = None
        THEN w
        ELSE [w1 EXCEPT !.dom.energyError =
                          conservationError(total, s.initialEnergy)]

updateEnergyDisplay(w) ==
  LET display(w0) ==
        LET s == w0.state
            total == s.latestEnergy[1].total
            w1 == IF s.initialEnergy = None
                    THEN setState([w0 EXCEPT !.captured = TRUE],
                                  [initialEnergy |-> Some(total)],
                                  "energy_init")
                    ELSE w0
        IN  IF s.latestEnergy = None
              THEN w0
              ELSE [w1 EXCEPT !.dom.energyError =
                                conservationError(total, s.initialEnergy)]
  IN  Once({ display(w0) : w0 \in {w} })

updateConnectionStatus(w, connected) ==
  [w EXCEPT !.dom.statusText =
              IF connected THEN "Connected" ELSE "Connection Lost"]

\* updateAngularDisplay, updateParameterDisplays and updateSliderInputs write
\* only DOM targets the model does not follow, and read the store.
updateAllDisplays(w) ==
  LET display(shown) ==
        LET s == shown.state
            w0 == [shown EXCEPT !.projections = @ + 1]
            w1 == IF s.latestEnergy # None THEN updateEnergyDisplay(w0) ELSE w0
        IN  updateConnectionStatus(w1, s.isConnected)
  IN  Once({ display(shown) : shown \in {w} })

\* A handler's result becomes the next state.
Commit(w, op) ==
  \E r \in {w} :
    /\ state' = r.state
    /\ dom' = r.dom
    /\ trail1' = r.trail1
    /\ trail2' = r.trail2
    /\ frameRequested' = r.frameRequested
    /\ UNCHANGED listeners
    /\ trace' = [sources |-> r.sources, projections |-> r.projections,
                 captured |-> r.captured]
    /\ lastOp' = op

----------------------------------------------------------------------------
(* Sync engine and connection monitor                                      *)

\* Mutant: losing the connection also clears the view.
handleConnectionError_ClearsView(w) ==
  LET s == w.state
      newRetries == s.connectionRetries + 1
      w1 == setState(w, [connectionRetries |-> newRetries], "connection_error")
  IN  IF newRetries >= maxRetries /\ s.isConnected
        THEN setState(w1, [isConnected |-> FALSE, latestCoords |-> None,
                           latestEnergy |-> None],
                      "connection_lost")
        ELSE w1

handleConnectionError(w) ==
  LET s == w.state
      newRetries == s.connectionRetries + 1
      w1 == setState(w, [connectionRetries |-> newRetries], "connection_error")
  IN  IF newRetries >= maxRetries /\ s.isConnected
        THEN setState(w1, [isConnected |-> FALSE], "connection_lost")
        ELSE w1

\* Mutant: a successful poll that never restores the connection.
pollStateSuccess_NoRecovery(w, response) ==
  setState(w,
    [latestCoords |-> Some(response.coords),
     latestEnergy |-> Some(response.energy),
     simulationState |-> Some(response),
     parameters |-> [k \in ParamNames |-> response[k]],
     conditions |-> [k \in CondNames |-> response[k]]],
    "server_update")

\* Mutant: a successful poll that leaves the parameters held locally.
pollStateSuccess_KeepsParameters(w, response) ==
  LET currentState == w.state
      w1 == setState(w,
              [latestCoords |-> Some(response.coords),
               latestEnergy |-> Some(response.energy),
               simulationState |-> Some(response),
               conditions |-> [k \in CondNames |-> response[k]]],
              "server_update")
  IN  IF ~currentState.isConnected
        THEN setState(w1, [isConnected |-> TRUE, connectionRetries |-> 0],
                      "connection_recovered")
        ELSE w1

\* Mutant: a successful poll that keeps the first body's coordinates only.
pollStateSuccess_OneBody(w, response) ==
  LET currentState == w.state
      w1 == setState(w,
              [latestCoords |-> Some(<< response.coords[1] >>),
               latestEnergy |-> Some(response.energy),
               simulationState |-> Some(response),
               parameters |-> [k \in ParamNames |-> response[k]],
               conditions |-> [k \in CondNames |-> response[k]]],
              "server_update")
  IN  IF ~currentState.isConnected
        THEN setState(w1, [isConnected |-> TRUE, connectionRetries |-> 0],
                      "connection_recovered")
        ELSE w1

pollStateSuccess(w, response) ==
  LET currentState == w.state
      w1 == setState(w,
              [latestCoords |-> Some(response.coords),
               latestEnergy |-> Some(response.energy),
               simulationState |-> Some(response),
               parameters |-> [k \in ParamNames |-> response[k]],
               conditions |-> [k \in CondNames |-> response[k]]],
              "server_update")
  IN  IF ~currentState.isConnected
        THEN setState(w1, [isConnected |-> TRUE, connectionRetries |-> 0],
                      "connection_recovered")
        ELSE w1

\* A poll whose response is ok and parses completes.
PollOkWith(response) ==
  /\ Commit(pollStateSuccess(World, response), "pollState:ok")
  /\ hist' = [hist EXCEPT
                !.failRun = 0,
                !.response = Some(response),
                !.epoch = IF @ = "reset" THEN "polled" ELSE @,
                !.baseline = IF hist.epoch = "reset"
                               THEN response.energy.total ELSE @]
  /\ sent' = << >>
  /\ UNCHANGED << heap, timers, nextTimer, inflight >>

PollOk == \E response \in Responses : PollOkWith(response)

\* A poll that fails (transport error, non-ok status, unparsable body)
\* completes.
PollFail ==
  /\ state.connectionRetries < MaxFailures
  /\ Commit(handleConnectionError(World), "pollState:fail")
  /\ hist' = [hist EXCEPT !.failRun = @ + 1]
  /\ sent' = << >>
  /\ UNCHANGED << heap, timers, nextTimer, inflight >>

----------------------------------------------------------------------------
(* Command dispatcher                                                      *)

\* updateState(path, value), path split at the dots. newState is a shallow
\* copy of this.state, so the container at keys[0] is the object the current
\* state holds: the assignment at the leaf changes it in place, and the
\* state passed to setState as "previous" holds the new value too.
updateState(w, keys, value) ==
  LET container == w.state[keys[1]]
      assigned == [k \in (DOMAIN container) \cup {keys[2]} |->
                     IF k = keys[2] THEN value ELSE container[k]]
      inPlace == [w EXCEPT !.state = [w.state EXCEPT ![keys[1]] = assigned],
                           !.writes = Append(@, [kind |-> "setPath",
                                                 partial |-> << >>,
                                                 keys |-> keys,
                                                 value |-> value])]
  IN  setState(inPlace, inPlace.state,
               "update:" \o keys[1] \o "." \o keys[2])

\* clearTimeout(handle): a handle that has fired or was cleared is ignored.
clearTimeout(pending, handle) ==
  SelectSeq(pending, LAMBDA t : t.id # handle)

\* The debounce of updateParameter / updateInitialCondition: timeouts is the
\* object the state held when the handler started (by reference); the slot of
\* the field is cleared if it holds a handle, and then holds the new timer.
\* Every timer has the same delay, so timers are due in the order they start.
Debounce(field, endpoint, numericValue, timeouts) ==
  LET slot == heap[timeouts][field]
      kept == IF slot # 0 THEN clearTimeout(timers, slot) ELSE timers
  IN  /\ nextTimer <= MaxTimers
      /\ heap' = [heap EXCEPT ![timeouts][field] = nextTimer]
      /\ timers' = Append(kept, [id |-> nextTimer, field |-> field,
                                 endpoint |-> endpoint, value |-> numericValue,
                                 timeouts |-> timeouts])
      /\ nextTimer' = nextTimer + 1

IsLive(handle) == \E i \in 1..Len(timers) : timers[i].id = handle

\* History of the edits: a burst of edits to a field goes on while the timer
\* of the field's previous edit has not fired.
EditHistory(field, numericValue) ==
  hist' = [hist EXCEPT
             !.burst[field] = IF IsLive(hist.lastEdit[field].timer)
                                THEN @ ELSE << >>,
             !.lastEdit[field] = [timer |-> nextTimer, value |-> numericValue]]

\* The display and the slider of the field, written first, are DOM targets
\* the model does not follow.
updateParameter(param, value) ==
  LET s == state
      numericValue == parseFloat(value)
  IN  /\ Commit(updateState(World, << "parameters", param >>, numericValue),
                "updateParameter")
      /\ Debounce(param, "/update_parameter", numericValue, s.updateTimeouts)
      /\ EditHistory(param, numericValue)
      /\ sent' = << >>
      /\ UNCHANGED inflight

updateInitialCondition(condition, value) ==
  LET s == state
      numericValue == parseFloat(value)
  IN  /\ Commit(updateState(World, << "conditions", condition >>, numericValue),
                "updateInitialCondition")
      /\ Debounce(condition, "/update_initial_condition", numericValue,
                  s.updateTimeouts)
      /\ EditHistory(condition, numericValue)
      /\ sent' = << >>
      /\ UNCHANGED inflight

\* Mutant: the callback sends the value the store holds for the field when
\* it runs.
TimerFires_SendsStoreValue ==
  /\ timers # << >>
  /\ LET t == Head(timers)
         copy == [heap[t.timeouts] EXCEPT ![t.field] = 0]
         held == IF t.field \in ParamNames
                   THEN state.parameters[t.field]
                   ELSE state.conditions[t.field]
     IN  /\ sent' = << [endpoint |-> t.endpoint, name |-> t.field,
                        value |-> held] >>
         /\ heap' = Append(heap, copy)
         /\ timers' = Tail(timers)
         /\ Commit(setState(World, [updateTimeouts |-> Len(heap) + 1],
                            "timeout_cleanup"),
                   "timer")
         /\ hist' = [hist EXCEPT !.burst[t.field] = Append(@, held)]
  /\ UNCHANGED << nextTimer, inflight >>

\* The callback of the timer that is due first runs: it issues the request
\* (whose response is only logged) and stores a copy of the timeouts object it
\* captured, with the slot of its field set to null.
TimerFires ==
  /\ timers # << >>
  /\ LET t == Head(timers)
         copy == [heap[t.timeouts] EXCEPT ![t.field] = 0]
     IN  /\ sent' = << [endpoint |-> t.endpoint, name |-> t.field,
                        value |-> t.value] >>
         /\ heap' = Append(heap, copy)
         /\ timers' = Tail(timers)
         /\ Commit(setState(World, [updateTimeouts |-> Len(heap) + 1],
                            "timeout_cleanup"),
                   "timer")
         /\ hist' = [hist EXCEPT !.burst[t.field] = Append(@, t.value)]
  /\ UNCHANGED << nextTimer, inflight >>

Presets == {"chaotic", "simple", "upright"}
PresetParams(preset) ==
  CASE preset = "chaotic" ->
         [theta_1 |-> 157, theta_2 |-> 157, omega_1 |-> 0, omega_2 |-> 0,
          length_rod_1 |-> 12000, length_rod_2 |-> 12000,
          mass_bob_1 |-> 1000, mass_bob_2 |-> 1000, g |-> 981]
    [] preset = "simple" ->
         [theta_1 |-> 100, theta_2 |-> 0, omega_1 |-> 0, omega_2 |-> 0,
          length_rod_1 |-> 12000, length_rod_2 |-> 0,
          mass_bob_1 |-> 1000, mass_bob_2 |-> 0, g |-> 981]
    [] preset = "upright" ->
         [theta_1 |-> 314, theta_2 |-> 314, omega_1 |-> 0, omega_2 |-> 0,
          length_rod_1 |-> 12000, length_rod_2 |-> 12000,
          mass_bob_1 |-> 1000, mass_bob_2 |-> 1000, g |-> 981]
\* Object.keys(params), in insertion order.
PresetKeys ==
  << "theta_1", "theta_2", "omega_1", "omega_2", "length_rod_1",
     "length_rod_2", "mass_bob_1", "mass_bob_2", "g" >>

\* setPreset up to the fetch: the request is issued at once.
setPreset(preset) ==
  /\ hist.commands < MaxCommands
  /\ sent' = << [endpoint |-> "/update_preset", name |-> preset,
                 value |-> 0] >>
  /\ inflight' = Append(inflight, [kind |-> "preset", preset |-> preset])
  /\ lastOp' = "setPreset"
  /\ trace' = [sources |-> {}, projections |-> 0, captured |-> FALSE]
  /\ hist' = [hist EXCEPT !.commands = @ + 1]
  /\ UNCHANGED << state, heap, timers, nextTimer, dom, listeners, trail1,
                  trail2, frameRequested >>

\* stateManager.updateState(path, stateUpdates[path]) for every key in turn.
RECURSIVE applyPreset(_, _, _)
applyPreset(w, keys, params) ==
  IF keys = << >>
    THEN w
    ELSE LET key == Head(keys)
             w1 == IF key \in ParamNames
                     THEN updateState(w, << "parameters", key >>, params[key])
                     ELSE IF key \in CondNames
                       THEN updateState(w, << "conditions", key >>, params[key])
                       ELSE w
         IN  applyPreset(w1, Tail(keys), params)

Without(q, i) == SubSeq(q, 1, i - 1) \o SubSeq(q, i + 1, Len(q))

\* The response of a preset request arrives: with data.success the preset is
\* written to the store (updateUISliders writes DOM targets not followed);
\* otherwise (success false, transport error) it is only logged.
PresetResponse ==
  \E i \in 1..Len(inflight), success \in BOOLEAN :
    /\ inflight[i].kind = "preset"
    /\ inflight' = Without(inflight, i)
    /\ Commit(IF success
                THEN applyPreset(World, PresetKeys,
                                 PresetParams(inflight[i].preset))
                ELSE World,
              IF success THEN "setPreset:ok" ELSE "setPreset:fail")
    /\ hist' = [hist EXCEPT !.preset = IF success THEN inflight[i].preset
                                                   ELSE @]
    /\ sent' = << >>
    /\ UNCHANGED << heap, timers, nextTimer >>

\* resetToDefaults up to the fetch.
resetToDefaults ==
  /\ hist.commands < MaxCommands
  /\ sent' = << [endpoint |-> "/reset_simulation", name |-> "",
                 value |-> 0] >>
  /\ inflight' = Append(inflight, [kind |-> "reset", preset |-> ""])
  /\ lastOp' = "resetToDefaults"
  /\ trace' = [sources |-> {}, projections |-> 0, captured |-> FALSE]
  /\ hist' = [hist EXCEPT !.commands = @ + 1]
  /\ UNCHANGED << state, heap, timers, nextTimer, dom, listeners, trail1,
                  trail2, frameRequested >>

\* resetPendulum: the trails are emptied and #energy-error shows "0.00%".
resetPendulum(w) ==
  [w EXCEPT !.trail1 = << >>, !.trail2 = << >>, !.dom.energyError = Num(0)]

\* The response of a reset request arrives: with response.ok the displays are
\* reset and the store gets initialEnergy null and a new, empty updateTimeouts
\* object; otherwise nothing is done.
ResetResponse ==
  \E i \in 1..Len(inflight), ok \in BOOLEAN :
    /\ inflight[i].kind = "reset"
    /\ inflight' = Without(inflight, i)
    /\ heap' = IF ok THEN Append(heap, [f \in EditFields |-> 0]) ELSE heap
    /\ Commit(IF ok
                THEN setState(resetPendulum(World),
                              [initialEnergy |-> None,
                               updateTimeouts |-> Len(heap) + 1],
                              "reset")
                ELSE World,
              IF ok THEN "resetToDefaults:ok" ELSE "resetToDefaults:fail")
    /\ hist' = [hist EXCEPT !.epoch = IF ok THEN "reset" ELSE @,
                            !.baseline = IF ok THEN 0 ELSE @]
    /\ sent' = << >>
    /\ UNCHANGED << timers, nextTimer >>

----------------------------------------------------------------------------
(* The store driven directly: any caller may merge, set a path, subscribe. *)

StorePartials ==
  { [isPaused |-> TRUE],
    [initialEnergy |-> None],
    [latestEnergy |-> Some(ResponseB.energy)],
    [parameters |-> [DefaultParameters EXCEPT !.g = 162, !.mass_bob_1 = 500],
     fps |-> 60] }
StoreSources == {"server_update", "local_update"}
StorePaths == { << "parameters", "g" >>, << "conditions", "theta_1" >> }
StoreValues == {371}

StoreCall(w, op) ==
  /\ Commit(w, op)
  /\ hist' = [hist EXCEPT !.writes = w.writes, !.calls = w.calls]
  /\ sent' = << >>
  /\ UNCHANGED << heap, timers, nextTimer, inflight >>

StoreSetState ==
  \E newState \in StorePartials, source \in StoreSources :
    StoreCall(setState(World, newState, source), "setState")

StoreUpdateState ==
  \E keys \in StorePaths, value \in StoreValues :
    StoreCall(updateState(World, keys, value), "updateState")

\* this.listeners.add(listener): a listener the Set holds is not added again.
subscribe(listener) ==
  /\ \A i \in 1..Len(listeners) : listeners[i] # listener
  /\ listeners' = Append(listeners, listener)
  /\ lastOp' = "subscribe"
  /\ trace' = [sources |-> {}, projections |-> 0, captured |-> FALSE]
  /\ sent' = << >>
  /\ UNCHANGED << state, heap, timers, nextTimer, inflight, dom, trail1,
                  trail2, frameRequested, hist >>

Subscribe == \E listener \in Listeners : subscribe(listener)

----------------------------------------------------------------------------
(* Animation loop and trail buffers                                        *)

push(trail, sample) == Append(trail, sample)
shift(trail) == Tail(trail)

\* Mutant: a full trail drops the sample just pushed instead of the oldest.
trim_DropsNewest(trail) ==
  IF Len(trail) > MAX_TRAIL THEN SubSeq(trail, 1, Len(trail) - 1) ELSE trail

\* if (trail.length > MAX_TRAIL) trail.shift()
trim(trail) ==
  IF Len(trail) > MAX_TRAIL THEN shift(trail) ELSE trail

\* The trail updates of animate. latestCoords[i].x of an entry that is not
\* there throws a TypeError: what was done before stays done, and the rest of
\* animate, the request of the next frame included, does not run.
updateTrails(w, coords) ==
  IF Len(coords) = 0
    THEN w
    ELSE LET w1 == [w EXCEPT !.trail1 = push(@, [x |-> coords[1].x,
                                                 y |-> coords[1].y])]
         IN  IF Len(coords) = 1
               THEN w1
               ELSE [w1 EXCEPT !.trail1 = trim(@),
                               !.trail2 = trim(push(@, [x |-> coords[2].x,
                                                        y |-> coords[2].y])),
                               !.frameRequested = TRUE]

\* Mutant: a frame that draws nothing (no coordinates, or paused) returns
\* before it requests the next one.
animate_StopsWhenIdle(now) ==
  LET s == state
      newFrameCount == s.frameCount + 1
      lastFpsUpdate == IF "lastFpsUpdate" \in DOMAIN s
                         THEN s.lastFpsUpdate ELSE 0
      running == [World EXCEPT !.frameRequested = FALSE]
      w1 == IF now - lastFpsUpdate >= 1000
              THEN setState(running,
                            [fps |-> newFrameCount, frameCount |-> 0,
                             lastFpsUpdate |-> 0],
                            "fps_update")
              ELSE setState(running, [frameCount |-> newFrameCount],
                            "frame_count")
      w2 == IF s.latestCoords # None /\ ~s.isPaused
              THEN updateTrails(w1, s.latestCoords[1])
              ELSE w1
  IN  /\ frameRequested
      /\ now - lastFpsUpdate < 1000 => newFrameCount <= MaxFrameCount
      /\ Commit(w2, "animate")
      /\ hist' = [hist EXCEPT !.overflow = /\ s.latestCoords # None
                                           /\ ~s.isPaused
                                           /\ Len(trail1) >= MAX_TRAIL]
      /\ sent' = << >>
      /\ UNCHANGED << heap, timers, nextTimer, inflight >>

\* One run of the animation callback. now is performance.now(), counted from
\* the last fps update (from the start of the page before the first one):
\* the code uses it only in the difference with lastFpsUpdate, which is
\* therefore written 0. At most MaxFrameCount + 1 frames run in one second.
\* The canvas, #fps and #trail-length are not followed.
animate(now) ==
  LET s == state
      newFrameCount == s.frameCount + 1
      lastFpsUpdate == IF "lastFpsUpdate" \in DOMAIN s
                         THEN s.lastFpsUpdate ELSE 0
      running == [World EXCEPT !.frameRequested = FALSE]
      w1 == IF now - lastFpsUpdate >= 1000
              THEN setState(running,
                            [fps |-> newFrameCount, frameCount |-> 0,
                             lastFpsUpdate |-> 0],
                            "fps_update")
              ELSE setState(running, [frameCount |-> newFrameCount],
                            "frame_count")
      w2 == IF s.latestCoords # None /\ ~s.isPaused
              THEN updateTrails(w1, s.latestCoords[1])
              ELSE [w1 EXCEPT !.frameRequested = TRUE]
  IN  /\ frameRequested
      /\ now - lastFpsUpdate < 1000 => newFrameCount <= MaxFrameCount
      /\ Commit(w2, "animate")
      /\ hist' = [hist EXCEPT !.overflow = /\ s.latestCoords # None
                                           /\ ~s.isPaused
                                           /\ Len(trail1) >= MAX_TRAIL]
      /\ sent' = << >>
      /\ UNCHANGED << heap, timers, nextTimer, inflight >>

\* #pause-btn is not followed.
togglePause ==
  LET s == state
      newPausedState == ~s.isPaused
  IN  /\ Commit(setState(World, [isPaused |-> newPausedState], "pause_toggle"),
                "togglePause")
      /\ sent' = << >>
      /\ UNCHANGED << heap, timers, nextTimer, inflight, hist >>

toggleTrails ==
  LET s == state
      newTrailsState == ~s.showTrails
  IN  /\ Commit(setState(World, [showTrails |-> newTrailsState], "trail_toggle"),
                "toggleTrails")
      /\ sent' = << >>
      /\ UNCHANGED << heap, timers, nextTimer, inflight, hist >>

----------------------------------------------------------------------------
\* The state once the script has run and DOMContentLoaded has started the
\* polling interval and requested the first animation frame.
Init ==
  /\ state = InitialState
  /\ heap = << [f \in EditFields |-> 0] >>
  /\ timers = << >>
  /\ nextTimer = 1
  /\ sent = << >>
  /\ inflight = << >>
  /\ dom = [energyError |-> Markup, statusText |-> "markup"]
  /\ listeners = << "binder" >>
  /\ trail1 = << >>
  /\ trail2 = << >>
  /\ frameRequested = TRUE
  /\ lastOp = "init"
  /\ trace = [sources |-> {}, projections |-> 0, captured |-> FALSE]
  /\ hist = [failRun |-> 0, response |-> None, epoch |-> "start",
             baseline |-> 0, preset |-> "", commands |-> 0,
             lastEdit |-> [f \in EditFields |-> [timer |-> 0, value |-> 0]],
             burst |-> [f \in EditFields |-> << >>],
             writes |-> << >>, calls |-> << >>, overflow |-> FALSE]

----------------------------------------------------------------------------
(* Specifications. Spec is every handler. The others are the handlers of   *)
(* one part of the page, with the rest of the page idle: the failure       *)
(* counter, the pending timers and the values of the store multiply, and   *)
(* each property is checked where the handlers that write what it reads    *)
(* run.                                                                    *)

EditParameter ==
  \E param \in EditParams, value \in InputStrings :
    updateParameter(param, value)

EditCondition ==
  \E condition \in EditConds, value \in InputStrings :
    updateInitialCondition(condition, value)

ChoosePreset == \E preset \in Presets : setPreset(preset)

Frame == \E now \in FrameTimes : animate(now)

Next ==
  \/ Frame
  \/ togglePause
  \/ toggleTrails
  \/ PollOk
  \/ PollFail
  \/ EditParameter
  \/ EditCondition
  \/ TimerFires
  \/ ChoosePreset
  \/ PresetResponse
  \/ resetToDefaults
  \/ ResetResponse

Spec == Init /\ [][Next]_vars

\* The sync engine and the connection monitor: polls succeed and fail.
NextConnection ==
  \/ PollOk
  \/ PollFail

SpecConnection == Init /\ [][NextConnection]_vars

\* The debounce of the command dispatcher: edits, timers and resets.
NextDebounce ==
  \/ EditParameter
  \/ EditCondition
  \/ TimerFires
  \/ resetToDefaults
  \/ ResetResponse

SpecDebounce == Init /\ [][NextDebounce]_vars

\* The store between the server and the user: successful polls, optimistic
\* edits (their timers not yet due), presets and resets.
NextCommands ==
  \/ PollOk
  \/ EditParameter
  \/ EditCondition
  \/ ChoosePreset
  \/ PresetResponse
  \/ resetToDefaults
  \/ ResetResponse

SpecCommands == Init /\ [][NextCommands]_vars

\* The store on its own, with listeners subscribed beside the display binder.
NextStore ==
  \/ StoreSetState
  \/ StoreUpdateState
  \/ Subscribe

SpecStore == Init /\ [][NextStore]_vars

\* The sync engine beside resets and the pause button: polls succeed and
\* fail while the user resets the simulation and pauses.
NextSync ==
  \/ PollOk
  \/ PollFail
  \/ resetToDefaults
  \/ ResetResponse
  \/ togglePause

SpecSync == Init /\ [][NextSync]_vars

\* The whole page with a user who does one thing at a time: an edit, a preset
\* or a reset is made when no timer is pending and no request is in flight,
\* and the frames run while the trails are empty.
Idle == timers = << >> /\ inflight = << >>
OneEdit == Idle /\ updateParameter("g", "3.71")
OnePreset == Idle /\ setPreset("simple")
OneReset == Idle /\ resetToDefaults
FirstFrames == trail1 = << >> /\ Frame

NextPage ==
  \/ PollOk
  \/ OneEdit
  \/ TimerFires
  \/ OnePreset
  \/ PresetResponse
  \/ OneReset
  \/ ResetResponse
  \/ FirstFrames

SpecPage == Init /\ [][NextPage]_vars

\* The trails up to their capacity and beyond: the coordinates move and the
\* user pauses while the run is young, then the frames go on.
EarlyPoll == Len(trail1) < EarlySamples /\ PollOk
EarlyPause == Len(trail1) < EarlySamples /\ togglePause

NextTrails ==
  \/ Frame
  \/ EarlyPoll
  \/ EarlyPause

SpecTrails == Init /\ [][NextTrails]_vars

\* The two loops. The browser runs the callback of every animation frame
\* requested, and the interval started at DOMContentLoaded fires every 50 ms
\* for a poll whose fetch settles one way or the other: both are weakly
\* fair. The polls succeed (the pendulum at rest) or fail, the frames are a
\* second apart once the run is no longer young, and the user pauses and
\* resumes while it is young.
Poll == PollOkWith(ResponseA) \/ PollFail
SlowFrame == animate(1000)
EarlyFrame == Len(trail1) < EarlySamples /\ animate(16)
LoopFrame == SlowFrame \/ EarlyFrame

NextLoops ==
  \/ LoopFrame
  \/ Poll
  \/ EarlyPause

SpecLoops ==
  Init /\ [][NextLoops]_vars /\ WF_vars(LoopFrame) /\ WF_vars(Poll)

\* The debounce to its end: edits of g, one edit of another field, polls that
\* overwrite the pending edit of g in the store, resets issued one at a time
\* while a timer is pending, and the timers. A timer that is pending comes
\* due 100 ms after it was started and the browser then runs its callback:
\* the firing of the timer due first is weakly fair.
OtherEdit ==
  /\ hist.lastEdit["theta_1"].timer = 0
  /\ updateInitialCondition("theta_1", "1.5")
OverwritingPoll ==
  /\ IsLive(hist.lastEdit["g"].timer)
  /\ state.parameters.g = hist.lastEdit["g"].value
  /\ PollOkWith(ResponseB)
PendingReset ==
  /\ timers # << >>
  /\ inflight = << >>
  /\ resetToDefaults

NextOutbound ==
  \/ EditParameter
  \/ OtherEdit
  \/ TimerFires
  \/ OverwritingPoll
  \/ PendingReset
  \/ ResetResponse

SpecOutbound == Init /\ [][NextOutbound]_vars /\ WF_vars(TimerFires)

----------------------------------------------------------------------------
(* Properties                                                              *)

LiveTimers(field) == {i \in 1..Len(timers) : timers[i].field = field}

\* C1. Connection hysteresis: the monitor goes from Connected to
\* Disconnected, and #status-text from "Connected" to "Connection Lost", only
\* at a failed poll that is at least the 5th of an unbroken run of failed
\* polls.
C1_Hysteresis ==
  [][((state.isConnected /\ ~state'.isConnected)
        \/ (dom.statusText = "Connected"
              /\ dom'.statusText = "Connection Lost"))
       => (lastOp' = "pollState:fail" /\ hist'.failRun >= maxRetries)]_vars

\* C2. In every reachable state there is at most one live debounce timer per
\* field.
C2_OneLiveTimerPerField ==
  \A f \in EditFields : Cardinality(LiveTimers(f)) <= 1

\* C3. Debounce coalescing: a burst of edits to one field, each made before
\* the timer of the previous one fired, issues exactly one request for the
\* field, carrying the value of the last edit: never more than one request in
\* a burst, and once no timer of the field is pending the one request of the
\* burst is the last edit's value.
C3_Coalescing ==
  \A f \in EditFields :
    /\ Len(hist.burst[f]) <= 1
    /\ (hist.lastEdit[f].timer # 0 /\ LiveTimers(f) = {})
         => hist.burst[f] = << hist.lastEdit[f].value >>

\* C4. Reconciliation: right after a successful poll the store's parameters,
\* conditions, latestCoords and latestEnergy are those of the poll's response.
C4_Reconciliation ==
  lastOp = "pollState:ok" =>
    LET response == hist.response[1]
    IN  /\ state.parameters = [k \in ParamNames |-> response[k]]
        /\ state.conditions = [k \in CondNames |-> response[k]]
        /\ state.latestCoords = Some(response.coords)
        /\ state.latestEnergy = Some(response.energy)

\* C4 witness: a successful poll has overwritten an optimistic edit of g whose
\* debounce timer is still pending.
C4_Witness ==
  /\ lastOp = "pollState:ok"
  /\ IsLive(hist.lastEdit["g"].timer)
  /\ state.parameters.g # hist.lastEdit["g"].value
  /\ state.parameters.g = hist.response[1].g

\* C5. Failure counter: every failed poll increases the counter by exactly 1,
\* and after every successful poll the counter is 0.
C5_FailureCounter ==
  [][/\ lastOp' = "pollState:fail"
          => state'.connectionRetries = state.connectionRetries + 1
     /\ lastOp' = "pollState:ok" => state'.connectionRetries = 0]_vars

\* C6. Recovery: a successful poll leaves the monitor Connected, and when it
\* was Disconnected the same poll sets the failure counter to 0.
C6_Recovery ==
  [][lastOp' = "pollState:ok"
       => /\ state'.isConnected
          /\ ~state.isConnected => state'.connectionRetries = 0]_vars

\* C6 witness: a successful poll restores a connection that had been lost
\* (initialEnergy is captured by the first successful poll, so a poll that
\* recovers without capturing it follows an earlier successful one).
C6_Witness ==
  /\ lastOp = "pollState:ok"
  /\ "connection_recovered" \in trace.sources
  /\ ~trace.captured
  /\ state.isConnected
  /\ state.connectionRetries = 0

\* C7. When the handler that ran last captured initialEnergy, #energy-error is
\* left at 0.00%; after every other successful poll it is left at
\* |total - initialEnergy| / initialEnergy * 100.
C7_ErrorAtCapture ==
  /\ trace.captured => dom.energyError = Num(0)
  /\ (lastOp = "pollState:ok" /\ ~trace.captured)
       => dom.energyError =
            conservationError(state.latestEnergy[1].total, state.initialEnergy)

\* C8. After a successful reset initialEnergy stays empty until a poll
\* completes, and the baseline then captured is that poll's energy total.
C8_BaselineAfterReset ==
  /\ hist.epoch = "reset" => state.initialEnergy = None
  /\ hist.epoch = "polled" => state.initialEnergy = Some(hist.baseline)

\* C9. An optimistic edit notifies the subscribers with the source label
\* local_update only, and the display binder does not re-project the displays.
C9_LocalUpdate ==
  lastOp \in {"updateParameter", "updateInitialCondition"} =>
    /\ trace.sources = {"local_update"}
    /\ trace.projections = 0

\* C10. setPreset and resetToDefaults issue exactly one request at once, and
\* when the response has been handled the store's parameters and conditions
\* are the complete preset, or the defaults.
C10_ImmediateCommands ==
  /\ lastOp = "setPreset"
       => (Len(sent) = 1 /\ sent[1].endpoint = "/update_preset")
  /\ lastOp = "resetToDefaults"
       => (Len(sent) = 1 /\ sent[1].endpoint = "/reset_simulation")
  /\ lastOp = "setPreset:ok"
       => /\ state.parameters =
               [k \in ParamNames |-> PresetParams(hist.preset)[k]]
          /\ state.conditions =
               [k \in CondNames |-> PresetParams(hist.preset)[k]]
  /\ lastOp = "resetToDefaults:ok"
       => /\ state.parameters = DefaultParameters
          /\ state.conditions = DefaultConditions

\* The value of the top-level field k after the calls logged in writes, made
\* from the state before: the value of the last call that touched k (a merge
\* replaces the field, a setPath replaces one leaf of it and keeps the
\* others), or the value before when no call touched it. The merge with which
\* a setPath commits comes right after it in the log and is part of it.
RECURSIVE LastApplied(_, _, _)
LastApplied(before, writes, k) ==
  IF writes = << >>
    THEN before[k]
    ELSE LET n == Len(writes)
             last == writes[n]
             earlier == SubSeq(writes, 1, n - 1)
         IN  CASE last.kind = "merge" /\ n > 1 /\ earlier[n - 1].kind = "setPath"
                    -> LastApplied(before, earlier, k)
               [] last.kind = "merge" /\ k \in DOMAIN last.partial
                    -> last.partial[k]
               [] last.kind = "setPath" /\ last.keys[1] = k
                    -> LET container == LastApplied(before, earlier, k)
                       IN  [leaf \in (DOMAIN container) \cup {last.keys[2]} |->
                              IF leaf = last.keys[2] THEN last.value
                                                     ELSE container[leaf]]
               [] OTHER -> LastApplied(before, earlier, k)

\* C11. Store last-write-wins: after a merge or a setPath (with the calls the
\* listeners make while it runs) every top-level field holds the value applied
\* by the last call that touched it, the sibling leaves of a setPath target
\* and the fields no call touched hold the value they had.
C11_LastWriteWins ==
  [][lastOp' \in {"setState", "updateState"}
       => /\ DOMAIN state' = DOMAIN state
          /\ \A k \in DOMAIN state' :
                state'[k] = LastApplied(state, hist'.writes, k)]_vars

\* C11 witness: a setPath of parameters.g made after a merge replaced the
\* parameters wholesale: g is the value set, its sibling is the merge's.
C11_Witness ==
  /\ lastOp = "updateState"
  /\ hist.writes[1].kind = "setPath"
  /\ hist.writes[1].keys = << "parameters", "g" >>
  /\ state.parameters.g = 371
  /\ state.parameters.mass_bob_1 = 500
  /\ state.fps = 60

\* The mutations made by the last direct call of the store, and the
\* listeners notified of mutation m, in the order they were invoked.
Mutations == Len(SelectSeq(hist.writes, LAMBDA c : c.kind = "merge"))
Notified(m) ==
  LET of == SelectSeq(hist.calls, LAMBDA c : c.mutation = m)
  IN  [i \in 1..Len(of) |-> of[i].listener]

\* C12. Store notification: every mutation invokes each subscribed listener
\* exactly once, in registration order, also when listeners throw.
C12_Notification ==
  lastOp \in {"setState", "updateState"} =>
    /\ Mutations >= 1
    /\ \A m \in 1..Mutations : Notified(m) = listeners

\* C12 witness: a mutation notified to three listeners, of which the second
\* throws, and during which the display binder made a mutation of its own.
C12_Witness ==
  /\ lastOp = "setState"
  /\ Len(listeners) = 3
  /\ listeners[2] = "thrower"
  /\ Mutations = 2
  /\ Notified(1) = listeners

\* The sample animate pushes to the trail of body i from the coordinates held.
Sample(i) ==
  [x |-> state.latestCoords[1][i].x, y |-> state.latestCoords[1][i].y]
PushedTo(trail, i) ==
  (IF Len(trail) >= MAX_TRAIL THEN Tail(trail) ELSE trail) \o << Sample(i) >>

\* C13. Trail bound: each trail holds at most 300 samples, and a frame that
\* pushes leaves each trail as it was plus the new sample at the end, less
\* its oldest sample when it was full.
C13_TrailBound ==
  /\ [](Len(trail1) <= MAX_TRAIL /\ Len(trail2) <= MAX_TRAIL)
  /\ [][(lastOp' = "animate" /\ state.latestCoords # None /\ ~state.isPaused)
          => /\ trail1' = PushedTo(trail1, 1)
             /\ trail2' = PushedTo(trail2, 2)]_vars

\* C13 witness: a frame pushed to a full trail: the trail still holds 300
\* samples, the newest is the one pushed and the oldest an earlier position.
C13_Witness ==
  /\ lastOp = "animate"
  /\ hist.overflow
  /\ Len(trail1) = MAX_TRAIL
  /\ Len(trail2) = MAX_TRAIL
  /\ trail1[MAX_TRAIL] = Sample(1)
  /\ trail1[1] # Sample(1)

\* C14. A failed poll leaves every field of the store but the failure counter
\* and the connected flag as it was: latestCoords, latestEnergy, parameters
\* and conditions among them.
C14_FailedPollFrame ==
  [][lastOp' = "pollState:fail"
       => /\ DOMAIN state' = DOMAIN state
          /\ \A k \in DOMAIN state \ {"connectionRetries", "isConnected"} :
                state'[k] = state[k]]_vars

\* C14 witness: the failed poll that loses the connection, with coordinates
\* and energy of an earlier poll still held.
C14_Witness ==
  /\ lastOp = "pollState:fail"
  /\ "connection_lost" \in trace.sources
  /\ ~state.isConnected
  /\ state.latestCoords = Some(ResponseB.coords)
  /\ state.latestEnergy = Some(ResponseB.energy)
  /\ state.parameters.g = ResponseB.g

\* The pending timers of the fields other than f, in the order they are due.
OtherTimers(pending, f) == SelectSeq(pending, LAMBDA t : t.field # f)

\* C15. Debounce independence: an edit to a field leaves the pending timers
\* of the other fields as they were, and when a field's timer fires while the
\* last edit of another field is still pending (both were edited in the
\* window the firing timer opened), the one request issued is for the field
\* of the timer and carries the last value edited for that field.
C15_Independence ==
  [][/\ lastOp' \in {"updateParameter", "updateInitialCondition"}
          => LET f == timers'[Len(timers')].field
             IN  OtherTimers(timers', f) = OtherTimers(timers, f)
     /\ (/\ lastOp' = "timer"
         /\ \E g \in EditFields \ {Head(timers).field} :
               IsLive(hist.lastEdit[g].timer))
          => /\ Len(sent') = 1
             /\ sent'[1].name = Head(timers).field
             /\ sent'[1].value = hist.lastEdit[Head(timers).field].value
             /\ OtherTimers(timers', Head(timers).field)
                   = OtherTimers(timers, Head(timers).field)]_vars

\* C16. initialEnergy epoch invariant: once initialEnergy holds a value, every
\* handler but that of a successful reset (a poll, an edit, a preset, a
\* timer, an animation frame, a failed reset) leaves it the value it has, so
\* it is cleared by a reset only.
C16_EpochInvariant ==
  [][(state.initialEnergy # None /\ lastOp' # "resetToDefaults:ok")
       => state'.initialEnergy = state.initialEnergy]_vars

\* C16 witness: the baseline captured from one poll is still held after a
\* poll with another energy total, a preset, an edit, its timer and a frame.
C16_Witness ==
  /\ lastOp = "animate"
  /\ state.initialEnergy = Some(ResponseA.energy.total)
  /\ state.latestEnergy = Some(ResponseB.energy)
  /\ hist.preset = "simple"
  /\ hist.burst["g"] # << >>
  /\ Len(trail1) = 1

\* C17. The connection monitor starts Connected: until a poll has succeeded
\* the store reports connected while fewer than 5 polls have failed, and
\* disconnected from the 5th failed poll on.
C17_InitialConnected ==
  hist.response = None =>
    /\ hist.failRun < maxRetries => state.isConnected
    /\ hist.failRun >= maxRetries => ~state.isConnected

\* C18. When the response of a reset has been handled, or the request has
\* failed, both trails are empty.
C18_ResetClearsTrails ==
  lastOp \in {"resetToDefaults:ok", "resetToDefaults:fail"} =>
    (trail1 = << >> /\ trail2 = << >>)

\* C19. latestCoords is empty or holds exactly 2 entries.
C19_TwoBodies ==
  state.latestCoords = None \/ Len(state.latestCoords[1]) = 2

\* C19 witness: a frame has read both entries of coordinates that a poll
\* stored after a reset.
C19_Witness ==
  /\ lastOp = "animate"
  /\ hist.epoch = "polled"
  /\ state.latestCoords = Some(ResponseB.coords)
  /\ trail2 = << Sample(2) >>

Issued(f) ==
  hist.lastEdit[f].timer # 0 /\ ~IsLive(hist.lastEdit[f].timer)

\* C21. Last value is eventually sent: for every field, whatever the edits of
\* the other fields, the polls and the resets, the timer of the field's last
\* edit eventually fires; when it fires the one request issued is for the
\* field and carries the value parsed by that edit; and from then on, until
\* the field is edited again, that request is the last one issued for the
\* field.
C21_LastValueSent ==
  /\ \A f \in EditFields : (hist.lastEdit[f].timer # 0) ~> Issued(f)
  /\ [][\A f \in EditFields :
          (/\ IsLive(hist.lastEdit[f].timer)
           /\ hist'.lastEdit[f] = hist.lastEdit[f]
           /\ ~(\E i \in 1..Len(timers') :
                   timers'[i].id = hist.lastEdit[f].timer))
            => /\ Len(sent') = 1
               /\ sent'[1].name = f
               /\ sent'[1].value = hist.lastEdit[f].value]_vars
  /\ [](\A f \in EditFields :
          Issued(f) => /\ hist.burst[f] # << >>
                       /\ hist.burst[f][Len(hist.burst[f])]
                            = hist.lastEdit[f].value)

\* C21 witness: the request of the last edit of g has been issued with the
\* value of the edit after a poll had overwritten that value in the store,
\* while an edit of theta_1 is still pending.
C21_Witness ==
  /\ lastOp = "timer"
  /\ Issued("g")
  /\ Len(sent) = 1
  /\ sent[1].name = "g"
  /\ sent[1].value = hist.lastEdit["g"].value
  /\ state.parameters.g # hist.lastEdit["g"].value
  /\ IsLive(hist.lastEdit["theta_1"].timer)

\* C22. Previous snapshot of a setPath: every listener notified of the
\* mutation a setPath makes is handed a previous snapshot that holds, at the
\* path, the value the field had before the call, and that differs there from
\* the next snapshot when the value set differs from that value.
C22_PreviousSnapshot ==
  [][lastOp' = "updateState"
       => LET path == hist'.writes[1].keys
              value == hist'.writes[1].value
              before == state[path[1]][path[2]]
          IN  \A i \in 1..Len(hist'.calls) :
                hist'.calls[i].mutation = 1
                  => LET previous == hist'.calls[i].prevState
                         next == hist'.calls[i].newState
                     IN  /\ previous[path[1]][path[2]] = before
                         /\ value # before
                              => previous[path[1]][path[2]]
                                   # next[path[1]][path[2]]]_vars

====
